---- MODULE Spec2Model ----
(***************************************************************************)
(* Model of src/main.js (3D Christmas tree): the per-frame callback        *)
(* animate() with its three stateful parts (assembly progress, ornament    *)
(* highlight, firework pool) and the control-panel handlers.               *)
(*                                                                         *)
(* Numbers are fixed point.  Progress and explosionSpeed count units of    *)
(* explosionAcceleration (0.00025), so 1.0 is 4000 units and the initial   *)
(* speed 0.001 is 4 units.  Rocket altitudes and speeds count hundredths,  *)
(* explosion life and decay count units of 0.0005, firework rate and the   *)
(* values of Math.random() compared with it count thousandths.             *)
(* Explosion particles count units of 0.00001.  The population loops and   *)
(* rebuildSnowflakes, which run while the scene is built and from the      *)
(* sliders, have their own specifications.                                 *)
(***************************************************************************)
EXTENDS Integers, Sequences, FiniteSets, TLC

VARIABLES
    uProgress,          \* explosionUniforms.uProgress.value
    explosionSpeed,     \* let explosionSpeed
    star,               \* star.position, as the coefficient c in final + c/One^2 * starRandomOffset
    starLight,          \* starLight.position, same representation
    autoRotate,         \* controls.autoRotate
    autoRotateSpeed,    \* controls.autoRotateSpeed
    params,             \* the params object (the tunables the model follows)
    hoveredInstanceId,  \* let hoveredInstanceId
    instanceColor,      \* ornaments.instanceColor, one colour per instance
    originalColors,     \* const originalColors, one colour per instance
    fireworks,          \* const fireworks (the pool array)
    bloomPass,          \* bloomPass.strength, .radius, .threshold
    bokehPass,          \* bokehPass.uniforms: focus, aperture, maxblur
    visuals,            \* the firework Points objects: those in the scene, those disposed
    nextId,             \* identity given to the next rocket created (observation only)
    population,         \* the instance group being populated: its kind, loop index, matrices
    snow,               \* the snowflake system: particlesMesh, its geometry, what the scene holds
    rateEntered,        \* the value last entered on the fireworkRate slider (observation only)
    frames,             \* number of animate() calls so far, saturating at MaxFrames
    obs                 \* observations of the latest frame (its inputs, what ran, what it wrote)

vars == <<uProgress, explosionSpeed, star, starLight, autoRotate, autoRotateSpeed, params,
          hoveredInstanceId, instanceColor, originalColors, fireworks, nextId, visuals,
          bloomPass, bokehPass,
          population, snow, rateEntered, frames, obs>>

----------------------------------------------------------------------------
(* Bounds of the model *)

\* Ornament instances modelled (the source builds 400).
NumOrnaments == 3
\* frames is counted up to here and then stays.
MaxFrames == 90
\* Math.random() falls below the firework rate only in the first frames:
\* in this many of them in Spec,
MainSpawnFrames == 1
\* in this many in SpecFireworks,
SpawnFrames == 2
\* and in this many in SpecPool, which fills the pool.
PoolSpawnFrames == 9
\* and in this many in SpecLive, just enough to fill the pool.
LiveSpawnFrames == 8
\* Calls of rebuildSnowflakes made from the slider.
MaxRebuilds == 3
\* Foliage instances modelled (the source builds 3000).
LeafCount == 3
\* Gift box instances modelled (the source builds 200).
BoxCount == 2
\* Particles modelled per explosion (the source builds 100).
NumParticles == 1
\* Ornament colourings the build may draw: palette rotations 0..MaxColorShift.
MaxColorShift == 1

----------------------------------------------------------------------------
(* Program constants *)

ProgressOne == 4000
InitialExplosionSpeed == 4
explosionAcceleration == 1
maxFireworks == 8

colorPalette == <<"red", "gold", "blue", "green", "yellow">>
whiteColor == "white"

Instances == 0 .. (NumOrnaments - 1)

\* const defaults: fireworkRate 0.015 in thousandths, rotateSpeed 0.5 in tenths,
\* snowflakeSize 0.25 in hundredths, snowflakeCount 1400, the bloom values and
\* lightSpeed in tenths, focus in units, aperture in ten-thousandths, maxblur
\* in thousandths
defaults == [bloomStrength |-> 9, bloomRadius |-> 4, bloomThreshold |-> 2,
             focus |-> 15, aperture |-> 1, maxblur |-> 10,
             rotateSpeed |-> 5, lightSpeed |-> 10,
             snowflakeSize |-> 25, snowflakeCount |-> 1400, fireworkRate |-> 15]

\* lines 601-604: the bloom pass as set up, in tenths
BloomInitial == [strength |-> 8, radius |-> 3, threshold |-> 4]

\* lines 607-613: the bokeh pass as constructed
BokehInitial == [focus |-> 15, aperture |-> 1, maxblur |-> 10]

\* line 99: the range of the fireworkRate slider, 0 to 0.1
FireworkRateMin == 0
FireworkRateMax == 100

\* Values the sliders are moved to: the two ends of each range and the default.
FireworkRates == {0, 15, 100}
RotateSpeeds == {5, 50}
PoolRates == {15, 100}

\* Values of Math.random() at the spawn test, in thousandths.
LowDraw == 10
ZeroDraw == 0
MidDraw == 300
HighDraw == 500

LifeOne == 2000

\* Particle positions and velocities count units of 0.00001: one hundredth of
\* rocket altitude is 1000 of them, the 0.003 of line 560 is 300
PositionScale == 1000
Gravity == 300
\* the factor 0.97 of lines 563-565, in hundredths
DragPercent == 97

\* <<startX, startZ>> of a rocket in hundredths: radius 30 of [18, 35]
StartPoints == {<<1800, -2400>>}

\* Particle velocities of lines 487-494 (speed 0.15 of [0.08, 0.2]), one
\* rising and one falling
VelocityUp == [x |-> 9000, y |-> 12000, z |-> 0]
VelocityDown == [x |-> 0, y |-> -12000, z |-> 9000]
DisplacementScale == 20

----------------------------------------------------------------------------
(* Assembly animator: animate(), lines 641-660 *)

\* lines 647-652: 1 - easeProgress = (1 - progress)^2, scaled by One^2
LerpRemainder(progress) == (ProgressOne - progress) * (ProgressOne - progress)

\* the block of lines 641-660 without its guard
DispersingAlways(progress) == TRUE

\* line 641
Dispersing(progress) == progress < ProgressOne

\* line 643 adding the initial speed instead of the accelerated one
AdvanceProgressConstant(progress, speed) == progress + InitialExplosionSpeed

\* line 643
AdvanceProgress(progress, speed) == progress + speed

\* line 655
Completed(progress) == progress >= ProgressOne

\* line 656 left out
ClampProgressMissing(progress) == progress

\* line 656
ClampProgress(progress) == ProgressOne

\* line 642 left out
AccelerateMissing(speed) == speed

\* line 642
Accelerate(speed) == speed + explosionAcceleration

\* line 657 left out
SnapStarMissing(position) == position

\* line 657: star.position.copy(starFinalPosition), no offset left
SnapStar(position) == 0

AssemblyAnimator(a) ==
    IF Dispersing(a.uProgress)
    THEN LET speed == Accelerate(a.explosionSpeed)
             progress == AdvanceProgress(a.uProgress, speed)
             moved == [a EXCEPT !.explosionSpeed = speed,
                                !.uProgress = progress,
                                !.star = LerpRemainder(progress),
                                !.starLight = LerpRemainder(progress),
                                !.order = Append(@, "assembly")]
         IN  IF Completed(progress)
             THEN [moved EXCEPT !.uProgress = ClampProgress(progress),
                                !.star = SnapStar(moved.star),
                                !.autoRotate = TRUE,
                                !.autoRotateWrites = @ + 1]
             ELSE moved
    ELSE [a EXCEPT !.order = Append(@, "assembly")]

----------------------------------------------------------------------------
(* Vertex displacement: injectExplosionShader, lines 159-181 *)

\* GLSL smoothstep(0.0, 1.0, x): t = clamp(x, 0, 1), t * t * (3 - 2 t); the
\* two divisions round down, which is exact at both ends of the range
Smoothstep(x) ==
    LET t == IF x < 0 THEN 0 ELSE IF x > ProgressOne THEN ProgressOne ELSE x
    IN  (((t * t) \div ProgressOne) * (3 * ProgressOne - 2 * t)) \div ProgressOne

\* the largest r in lo..hi with r * r <= n
RECURSIVE IntSqrt(_, _, _)
IntSqrt(n, lo, hi) ==
    IF lo >= hi THEN lo
    ELSE LET mid == (lo + hi + 1) \div 2
         IN  IF mid * mid <= n THEN IntSqrt(n, mid, hi) ELSE IntSqrt(n, lo, mid - 1)

\* GLSL pow(p, 0.5), rounded down: One * sqrt(p / One)
PowHalf(p) == IntSqrt(p * ProgressOne, 0, ProgressOne)

\* line 175 without the "1.0 -"
ExplodeFactorInverted(progress) == PowHalf(Smoothstep(progress))

\* lines 174-175: explodeFactor = 1.0 - pow(smoothstep(0.0, 1.0, uProgress), 0.5)
ExplodeFactor(progress) == ProgressOne - PowHalf(Smoothstep(progress))

\* line 178: what is added to one coordinate of a vertex whose aRandomOffset
\* coordinate is offset (in thousandths); the result counts 1 / (1000 * One)
Displacement(offset, progress) == offset * ExplodeFactor(progress) * DisplacementScale

\* Coordinates of aRandomOffset (a point of the unit sphere, lines 187-192).
OffsetSamples == {-1000, -600, 0, 800, 1000}

----------------------------------------------------------------------------
(* Highlight interaction: animate(), lines 667-698 *)

\* ornaments.setColorAt(id, color)
setColorAt(colors, id, color) == [colors EXCEPT ![id] = color]

\* the restore reading the colour buffer instead of the side table
OriginalColorCurrent(id) == instanceColor[id]

\* new THREE.Color(originalColors[id*3], originalColors[id*3+1], originalColors[id*3+2])
OriginalColor(id) == originalColors[id]

\* lines 675-681 and 689-694 left out
RestoreHoveredSkipped(s) == s

\* lines 675-681 and 689-694: put the stored original colour back
RestoreHovered(s) ==
    [s EXCEPT !.instanceColor = setColorAt(@, s.hoveredInstanceId, OriginalColor(s.hoveredInstanceId)),
              !.colorWrites = @ + 1]

\* lines 683-685
HighlightInstance(s, instanceId) ==
    [s EXCEPT !.instanceColor = setColorAt(@, instanceId, whiteColor),
              !.colorWrites = @ + 1,
              !.needsUpdateSet = TRUE,
              !.hoveredInstanceId = instanceId]

\* line 673 left out: every hit is treated as a new one
HoverChangedAlways(instanceId, hovered) == TRUE

\* line 673
HoverChanged(instanceId, hovered) == instanceId # hovered

\* intersection is the result of raycaster.intersectObject: <<>> or <<instanceId>>
HighlightController(s0, intersection) ==
    LET s == [s0 EXCEPT !.order = Append(@, "highlight")]
    IN  IF Len(intersection) > 0
        THEN LET instanceId == intersection[1]
             IN  IF HoverChanged(instanceId, s.hoveredInstanceId)
                 THEN HighlightInstance(
                          IF s.hoveredInstanceId # -1 THEN RestoreHovered(s) ELSE s,
                          instanceId)
                 ELSE s
        ELSE IF s.hoveredInstanceId # -1
             THEN [RestoreHovered(s) EXCEPT !.needsUpdateSet = TRUE,
                                            !.hoveredInstanceId = -1]
             ELSE s

----------------------------------------------------------------------------
(* Firework pool: createRocket, createExplosion, updateFireworks, lines 429-582 *)

\* lines 433-470; id is the observer's name for the entity, start is
\* <<startX, startZ>>
createRocket(id, start, targetY, speed) ==
    [type |-> "rocket", id |-> id, x |-> start[1], y |-> 0, z |-> start[2],
     targetY |-> targetY, speed |-> speed,
     life |-> 0, decay |-> 0, positions |-> <<>>, velocities |-> <<>>]

\* lines 473-524: every particle starts at (x, y, z), given in the rocket's
\* hundredths, with the velocity drawn for it; an explosion has no x, y, z
createExplosion(id, x, y, z, decay, velocities) ==
    [type |-> "explosion", id |-> id, x |-> 0, y |-> 0, z |-> 0, targetY |-> 0, speed |-> 0,
     life |-> LifeOne, decay |-> decay,
     positions |-> [j \in 1..NumParticles |->
                      [x |-> x * PositionScale, y |-> y * PositionScale, z |-> z * PositionScale]],
     velocities |-> velocities]

\* fw.points: the Points object made for an entity, named by what it shows
Points(fw) == <<fw.type, fw.id>>

\* no firework has been created yet
NoVisuals == [scene |-> {}, geometryDisposed |-> {}, materialDisposed |-> {}]

\* scene.add(rocket), line 459, and scene.add(points), line 515
SceneAdd(v, points) == [v EXCEPT !.scene = @ \cup {points}]

\* the disposal of lines 546-548 and 575-577 without scene.remove
DiscardLeavesInScene(v, points) ==
    [v EXCEPT !.geometryDisposed = @ \cup {points},
              !.materialDisposed = @ \cup {points}]

\* lines 546-548 and 575-577: scene.remove(fw.points), geometry.dispose(),
\* material.dispose()
Discard(v, points) ==
    [v EXCEPT !.scene = @ \ {points},
              !.geometryDisposed = @ \cup {points},
              !.materialDisposed = @ \cup {points}]

\* the capacity test of line 529 off by one
SpawnConditionOffByOne(draw, rate, length) == draw < rate /\ length <= maxFireworks

\* the rate test of line 529 admitting a draw equal to the rate
SpawnConditionInclusive(draw, rate, length) == draw <= rate /\ length < maxFireworks

\* line 529
SpawnCondition(draw, rate, length) == draw < rate /\ length < maxFireworks

\* fireworks.splice(i, 1), with i counted from 1
Splice(pool, i) == SubSeq(pool, 1, i - 1) \o SubSeq(pool, i + 1, Len(pool))

\* line 539 left out
AscendMissing(fw) == fw

\* line 539
Ascend(fw) == [fw EXCEPT !.y = @ + fw.speed]

\* line 545
ReachedTarget(fw) == fw.y >= fw.targetY

\* v * 0.97, lines 563-565
Drag(c) == IF c >= 0 THEN (c * DragPercent) \div 100 ELSE -(((-c) * DragPercent) \div 100)

\* lines 558-566: every particle moves by its velocity, lowered by 0.003 on
\* the vertical axis, and the stored velocity is then multiplied by 0.97
MoveParticles(fw) ==
    [fw EXCEPT !.positions = [j \in DOMAIN fw.positions |->
                                [x |-> fw.positions[j].x + fw.velocities[j].x,
                                 y |-> fw.positions[j].y + fw.velocities[j].y - Gravity,
                                 z |-> fw.positions[j].z + fw.velocities[j].z]],
               !.velocities = [j \in DOMAIN fw.velocities |->
                                 [x |-> Drag(fw.velocities[j].x),
                                  y |-> Drag(fw.velocities[j].y),
                                  z |-> Drag(fw.velocities[j].z)]]]

\* line 570
Age(fw) == [fw EXCEPT !.life = @ - fw.decay]

\* the removal test of line 574 written with < instead of <=
DeadStrict(fw) == fw.life < 0

\* line 574
Dead(fw) == fw.life <= 0

\* lines 546-552 without the splice of line 549
BurstKeepsRocket(u, i, fw, decay, velocities) ==
    [u EXCEPT !.fireworks = Append(@, createExplosion(fw.id, fw.x, fw.y, fw.z, decay, velocities)),
              !.visuals = SceneAdd(Discard(@, Points(fw)), <<"explosion", fw.id>>),
              !.burst = @ \cup {fw.id}]

\* lines 546-552: the rocket leaves the pool, its explosion is pushed at the end
Burst(u, i, fw, decay, velocities) ==
    [u EXCEPT !.fireworks = Append(Splice(@, i),
                                   createExplosion(fw.id, fw.x, fw.y, fw.z, decay, velocities)),
              !.visuals = SceneAdd(Discard(@, Points(fw)), <<"explosion", fw.id>>),
              !.burst = @ \cup {fw.id}]

\* lines 575-578
RemoveDead(u, i, fw) ==
    [u EXCEPT !.fireworks = Splice(@, i),
              !.visuals = Discard(@, Points(fw)),
              !.removed = @ \cup {fw.id}]

\* One pass of the body of the for loop of line 534 at index i (counted from
\* 1), on the array as it is at that moment.
UpdateEntity(u0, i, rnd) ==
    LET fw == u0.fireworks[i]
        u == [u0 EXCEPT !.updated = Append(@, [id |-> fw.id, type |-> fw.type])]
    IN  IF fw.type = "rocket"
        THEN LET up == Ascend(fw)
             IN  IF ReachedTarget(up)
                 THEN Burst(u, i, up, rnd.decayOf[fw.id], rnd.velocityOf[fw.id])
                 ELSE [u EXCEPT !.fireworks[i] = up]
        ELSE IF fw.type = "explosion"
        THEN LET aged == Age(MoveParticles(fw))
             IN  IF Dead(aged)
                 THEN RemoveDead(u, i, aged)
                 ELSE [u EXCEPT !.fireworks[i] = aged]
        ELSE u

\* the loop of line 534 run upwards, for (let i = 0; i < fireworks.length; i++)
RECURSIVE UpdateLoopUpFrom(_, _, _)
UpdateLoopUpFrom(u, i, rnd) ==
    IF i > Len(u.fireworks) THEN u ELSE UpdateLoopUpFrom(UpdateEntity(u, i, rnd), i + 1, rnd)

UpdateLoopUpwards(u, i, rnd) == UpdateLoopUpFrom(u, 1, rnd)

\* for (let i = fireworks.length - 1; i >= 0; i--)
RECURSIVE UpdateLoop(_, _, _)
UpdateLoop(u, i, rnd) ==
    IF i < 1 THEN u ELSE UpdateLoop(UpdateEntity(u, i, rnd), i - 1, rnd)

\* The random numbers one call of updateFireworks draws: draw is the value
\* compared with the rate, start, targetY and speed are those of a new rocket,
\* decayOf[id] and velocityOf[id] are the decay and the particle velocities of
\* the explosion of rocket id.
updateFireworks(s0, rnd) ==
    LET s == [s0 EXCEPT !.order = Append(@, "fireworks")]
        u0 == IF SpawnCondition(rnd.draw, s.fireworkRate, Len(s.fireworks))
              THEN [s EXCEPT !.fireworks = Append(@, createRocket(s.nextId, rnd.start, rnd.targetY, rnd.speed)),
                             !.visuals = SceneAdd(@, <<"rocket", s.nextId>>),
                             !.nextId = @ + 1]
              ELSE s
    IN  UpdateLoop(u0, Len(u0.fireworks), rnd)

----------------------------------------------------------------------------
(* The frame callback animate(), lines 634-730 *)

\* composer.render(), line 729
Render(s) == [s EXCEPT !.order = Append(@, "render")]

\* updateFireworks() called before the hit test
AnimateBodyFireworksFirst(s, intersection, rnd) ==
    Render(HighlightController(updateFireworks(AssemblyAnimator(s), rnd), intersection))

\* The statements of animate() in the order the source runs them.
AnimateBody(s, intersection, rnd) ==
    Render(updateFireworks(HighlightController(AssemblyAnimator(s), intersection), rnd))

\* The hit-test sequence of the worked example: 0, 0, 1, none.
HitScenario == << <<0>>, <<0>>, <<1>>, <<>> >>

\* How many frames of HitScenario the session has followed so far (-1: it left it).
ScenarioNext(k, intersection) ==
    IF k >= 0 /\ k < Len(HitScenario) /\ intersection = HitScenario[k + 1]
    THEN k + 1
    ELSE -1

\* The program state at the start of a frame, as one record.
FrameStart ==
    [uProgress |-> uProgress, explosionSpeed |-> explosionSpeed, star |-> star,
     starLight |-> starLight, autoRotate |-> autoRotate,
     autoRotateWrites |-> obs.autoRotateWrites,
     hoveredInstanceId |-> hoveredInstanceId, instanceColor |-> instanceColor,
     colorWrites |-> 0, needsUpdateSet |-> FALSE,
     fireworks |-> fireworks, nextId |-> nextId, visuals |-> visuals, fireworkRate |-> params.fireworkRate,
     burst |-> {}, removed |-> {}, updated |-> <<>>, order |-> <<>>]

\* where an entered rate lies with respect to the range of the slider
EnteredRange(v) == IF v < FireworkRateMin THEN "below"
                   ELSE IF v > FireworkRateMax THEN "above" ELSE "inside"

Frame(intersection, rnd) ==
    LET s == AnimateBody(FrameStart, intersection, rnd)
    IN  /\ uProgress' = s.uProgress
        /\ explosionSpeed' = s.explosionSpeed
        /\ star' = s.star
        /\ starLight' = s.starLight
        /\ autoRotate' = s.autoRotate
        /\ hoveredInstanceId' = s.hoveredInstanceId
        /\ instanceColor' = s.instanceColor
        /\ fireworks' = s.fireworks
        /\ visuals' = s.visuals
        /\ nextId' = s.nextId
        /\ frames' = IF frames < MaxFrames THEN frames + 1 ELSE frames
        /\ obs' = [tick |-> 1 - obs.tick, hit |-> intersection, draw |-> rnd.draw,
                   entered |-> EnteredRange(rateEntered),
                   belowRate |-> rnd.draw < params.fireworkRate,
                   lengthBefore |-> Len(fireworks),
                   created |-> s.nextId - nextId,
                   order |-> s.order, colorWrites |-> s.colorWrites,
                   needsUpdateSet |-> s.needsUpdateSet,
                   autoRotateWrites |-> s.autoRotateWrites,
                   scenario |-> ScenarioNext(obs.scenario, intersection),
                   burst |-> s.burst, removed |-> s.removed, updated |-> s.updated]
        /\ UNCHANGED <<autoRotateSpeed, params, originalColors, bloomPass, bokehPass,
                       population, snow, rateEntered>>

\* Results the hit test can give.
Intersections == {<<>>} \cup {<<i>> : i \in Instances}

RocketIds == {fireworks[i].id : i \in {j \in DOMAIN fireworks : fireworks[j].type = "rocket"}}

RandomsWith(draws, targets, speeds, decays, velocities) ==
    [draw : draws, start : StartPoints, targetY : targets, speed : speeds,
     decayOf : [RocketIds -> decays],
     velocityOf : [RocketIds -> [1..NumParticles -> velocities]]]

\* The random numbers of one frame: the spawn draw is below the rate only
\* during the first `window` frames.
Randoms(window, targets, speeds, decays, velocities) ==
    RandomsWith(IF frames < window THEN {LowDraw, HighDraw} ELSE {HighDraw},
                targets, speeds, decays, velocities)

----------------------------------------------------------------------------
(* Control panel, lines 57-99 *)

\* params.reset, lines 57-73
Reset ==
    /\ params' = defaults
    /\ bloomPass' = [strength |-> defaults.bloomStrength, radius |-> defaults.bloomRadius,
                     threshold |-> defaults.bloomThreshold]
    /\ bokehPass' = [focus |-> defaults.focus, aperture |-> defaults.aperture,
                     maxblur |-> defaults.maxblur]
    /\ autoRotateSpeed' = defaults.rotateSpeed
    /\ rateEntered' = defaults.fireworkRate
    /\ UNCHANGED <<uProgress, explosionSpeed, star, starLight, autoRotate, hoveredInstanceId,
                   instanceColor, originalColors, fireworks, nextId, visuals, population, snow,
                   frames, obs>>

\* the property of bloomPass each bloom slider writes, lines 79-81
BloomField == [bloomStrength |-> "strength", bloomRadius |-> "radius",
               bloomThreshold |-> "threshold"]

\* lines 79-81: v is entered on the bloom slider `name`
SetBloom(name, v) ==
    /\ v # params[name]
    /\ params' = [params EXCEPT ![name] = v]
    /\ bloomPass' = [bloomPass EXCEPT ![BloomField[name]] = v]
    /\ UNCHANGED <<uProgress, explosionSpeed, star, starLight, autoRotate, autoRotateSpeed,
                   hoveredInstanceId, instanceColor, originalColors, fireworks, nextId, visuals,
                   bokehPass, population, snow, rateEntered, frames, obs>>

\* lines 84-86: v is entered on the bokeh slider `name`
SetBokeh(name, v) ==
    /\ v # params[name]
    /\ params' = [params EXCEPT ![name] = v]
    /\ bokehPass' = [bokehPass EXCEPT ![name] = v]
    /\ UNCHANGED <<uProgress, explosionSpeed, star, starLight, autoRotate, autoRotateSpeed,
                   hoveredInstanceId, instanceColor, originalColors, fireworks, nextId, visuals,
                   bloomPass, population, snow, rateEntered, frames, obs>>

\* line 90: the lightSpeed slider has no onChange; line 709 reads params
SetLightSpeed(v) ==
    /\ v # params.lightSpeed
    /\ params' = [params EXCEPT !.lightSpeed = v]
    /\ UNCHANGED <<uProgress, explosionSpeed, star, starLight, autoRotate, autoRotateSpeed,
                   hoveredInstanceId, instanceColor, originalColors, fireworks, nextId, visuals,
                   bloomPass, bokehPass, population, snow, rateEntered, frames, obs>>

\* line 99: add(params, 'fireworkRate', 0, 0.1) gives the controller the range
\* [0, 0.1]; the controller stores an entered value clamped to its range
ClampRate(v) == IF v < FireworkRateMin THEN FireworkRateMin
                ELSE IF v > FireworkRateMax THEN FireworkRateMax ELSE v

\* line 99: v is entered on the fireworkRate slider, which has no onChange
SetFireworkRate(v) ==
    /\ v # rateEntered
    /\ params' = [params EXCEPT !.fireworkRate = ClampRate(v)]
    /\ rateEntered' = v
    /\ UNCHANGED <<uProgress, explosionSpeed, star, starLight, autoRotate, autoRotateSpeed,
                   hoveredInstanceId, instanceColor, originalColors, fireworks, nextId, visuals,
                   bloomPass, bokehPass,
                   population, snow, frames, obs>>

\* line 89
SetRotateSpeed(v) ==
    /\ v # params.rotateSpeed
    /\ params' = [params EXCEPT !.rotateSpeed = v]
    /\ autoRotateSpeed' = v
    /\ UNCHANGED <<uProgress, explosionSpeed, star, starLight, autoRotate,
                   hoveredInstanceId, instanceColor, originalColors, fireworks, nextId, visuals,
                   bloomPass, bokehPass,
                   population, snow, rateEntered, frames, obs>>

----------------------------------------------------------------------------
(* Instance population, lines 222-354 *)

treeHeight == 12
treeRadius == 4

\* (cos(angle), sin(angle)) in fifths: directions with rational coordinates
DirectionScale == 5
Directions == {<<5, 0>>, <<3, 4>>, <<-4, -3>>}

\* Math.random() of line 254 in quarters
RandomScale == 4
RadialDraws == {0, 2, 3}

\* Math.random() of lines 293 and 338 in twentieths
RatioScale == 20
RatioDraws == {0, 10, 19}

\* 0.2 of lines 342-343 in twentieths
BoxProtrusion == 4

\* the capacity each InstancedMesh is constructed with
Capacity(kind) == IF kind = "foliage" THEN LeafCount
                  ELSE IF kind = "ornaments" THEN NumOrnaments
                  ELSE IF kind = "boxes" THEN BoxCount ELSE 0

\* an instance matrix not yet written
Blank == [written |-> FALSE, x |-> 0, y |-> 0, z |-> 0, unit |-> 1]

\* the state of a population loop about to start
LoopStart(kind) ==
    [kind |-> kind, i |-> 0, writes |-> 0, matrix |-> [j \in 1..Capacity(kind) |-> Blank]]

\* no population loop is running
Populated == LoopStart("none")

\* line 254 without the factor 0.5 on the random term
FoliagePositionWide(i, dir, q) ==
    LET r == (LeafCount - i) * treeRadius
        dist == r * (RandomScale + 2 * q)
    IN  [written |-> TRUE, x |-> dir[1] * dist, z |-> dir[2] * dist,
         y |-> i * treeHeight * 2 * RandomScale * DirectionScale,
         unit |-> LeafCount * 2 * RandomScale * DirectionScale]

\* lines 247-259: ratio = i / leafCount, r = (1 - ratio) * treeRadius,
\* dist = r * (0.5 + random * 0.5), with random = q / RandomScale; lengths are
\* in units of 1 / (leafCount * 2 * RandomScale * DirectionScale)
FoliagePosition(i, dir, q) ==
    LET r == (LeafCount - i) * treeRadius
        dist == r * (RandomScale + q)
    IN  [written |-> TRUE, x |-> dir[1] * dist, z |-> dir[2] * dist,
         y |-> i * treeHeight * 2 * RandomScale * DirectionScale,
         unit |-> LeafCount * 2 * RandomScale * DirectionScale]

\* lines 293-300 (extra = 0) and 338-344 (extra = 0.2): ratio = k / RatioScale,
\* r = (1 - ratio) * treeRadius; lengths in units of 1 / (RatioScale * DirectionScale)
ScatterPosition(k, dir, extra) ==
    LET r == (RatioScale - k) * treeRadius
    IN  [written |-> TRUE, x |-> dir[1] * (r + extra), z |-> dir[2] * (r + extra),
         y |-> k * treeHeight * DirectionScale,
         unit |-> RatioScale * DirectionScale]

\* setMatrixAt(i, dummy.matrix) followed by i++
SetMatrixAt(pos) ==
    /\ population' = [population EXCEPT !.matrix[population.i + 1] = pos,
                                        !.i = @ + 1, !.writes = @ + 1]
    /\ UNCHANGED <<uProgress, explosionSpeed, star, starLight, autoRotate, autoRotateSpeed,
                   params, hoveredInstanceId, instanceColor, originalColors, fireworks,
                   nextId, visuals, bloomPass, bokehPass, snow, rateEntered, frames, obs>>

\* one iteration of the loop of lines 246-264
PlaceFoliage ==
    /\ population.kind = "foliage"
    /\ population.i < LeafCount
    /\ \E dir \in Directions, q \in RadialDraws :
          SetMatrixAt(FoliagePosition(population.i, dir, q))

\* one iteration of the loop of lines 292-316
PlaceOrnament ==
    /\ population.kind = "ornaments"
    /\ population.i < NumOrnaments
    /\ \E dir \in Directions, k \in RatioDraws :
          SetMatrixAt(ScatterPosition(k, dir, 0))

\* one iteration of the loop of lines 337-354
PlaceBox ==
    /\ population.kind = "boxes"
    /\ population.i < BoxCount
    /\ \E dir \in Directions, k \in RatioDraws :
          SetMatrixAt(ScatterPosition(k, dir, BoxProtrusion))

----------------------------------------------------------------------------
(* Snowflakes: rebuildSnowflakes and its sliders, lines 93-98 and 397-426 *)

\* rebuildSnowflakes adding the new group without removing the old one
rebuildSnowflakesKeepsOld(w, count) ==
    [w EXCEPT !.particlesGeometry = w.nextId,
              !.particlesMesh = w.nextId,
              !.points = @ @@ (w.nextId :> count),
              !.scene = @ \cup {w.nextId},
              !.nextId = @ + 1,
              !.repeated = (w.lastCount = count),
              !.lastCount = count]

\* lines 410-423; the Points object and the geometry made by one call share
\* the identity w.nextId
rebuildSnowflakes(w, count) ==
    LET old == IF w.particlesMesh # 0
               THEN [w EXCEPT !.scene = @ \ {w.particlesMesh},
                              !.disposed = @ \cup {w.particlesGeometry}]
               ELSE w
    IN  [old EXCEPT !.particlesGeometry = w.nextId,
                    !.particlesMesh = w.nextId,
                    !.points = @ @@ (w.nextId :> count),
                    !.scene = @ \cup {w.nextId},
                    !.nextId = @ + 1,
                    !.repeated = (w.lastCount = count),
                    !.lastCount = count]

\* lines 397-407: before the first call no mesh exists (0 stands for undefined)
SnowEmpty ==
    [particlesMesh |-> 0, particlesGeometry |-> 0, points |-> <<>>, scene |-> {},
     disposed |-> {}, size |-> defaults.snowflakeSize, nextId |-> 1,
     lastCount |-> 0, repeated |-> FALSE]

\* line 426: rebuildSnowflakes(params.snowflakeCount)
SnowBuilt == rebuildSnowflakes(SnowEmpty, defaults.snowflakeCount)

\* lines 96-98: v is entered on the snowflakeCount slider
SetSnowflakeCount(v) ==
    /\ snow.nextId <= MaxRebuilds + 1
    /\ params' = [params EXCEPT !.snowflakeCount = v]
    /\ snow' = rebuildSnowflakes(snow, v)
    /\ UNCHANGED <<uProgress, explosionSpeed, star, starLight, autoRotate, autoRotateSpeed,
                   hoveredInstanceId, instanceColor, originalColors, fireworks, nextId, visuals,
                   bloomPass, bokehPass,
                   population, rateEntered, frames, obs>>

\* lines 93-95
SetSnowflakeSize(v) ==
    /\ v # params.snowflakeSize
    /\ params' = [params EXCEPT !.snowflakeSize = v]
    /\ snow' = [snow EXCEPT !.size = v]
    /\ UNCHANGED <<uProgress, explosionSpeed, star, starLight, autoRotate, autoRotateSpeed,
                   hoveredInstanceId, instanceColor, originalColors, fireworks, nextId, visuals,
                   bloomPass, bokehPass,
                   population, rateEntered, frames, obs>>

SnowflakeCounts == {100, 1400, 3000}
SnowflakeSizes == {10, 25, 100}

----------------------------------------------------------------------------
(* Specifications *)

\* The step is a call of animate()
IsFrame == obs'.tick # obs.tick

\* lines 292-318: each ornament draws a palette colour; the draws considered
\* give ornament i the palette entry i + k for a k in 0..MaxColorShift.
Colorings ==
    {[i \in Instances |-> colorPalette[((i + k) % Len(colorPalette)) + 1]] : k \in 0 .. MaxColorShift}

InitOf(colorings, populations) ==
    /\ uProgress = 0
    /\ explosionSpeed = InitialExplosionSpeed
    /\ star = LerpRemainder(0)
    /\ starLight = LerpRemainder(0)
    /\ autoRotate = FALSE
    /\ autoRotateSpeed = defaults.rotateSpeed
    /\ params = defaults
    /\ hoveredInstanceId = -1
    /\ originalColors \in colorings
    /\ instanceColor = originalColors
    /\ fireworks = <<>>
    /\ visuals = NoVisuals
    /\ bloomPass = BloomInitial
    /\ bokehPass = BokehInitial
    /\ nextId = 1
    /\ frames = 0
    /\ population \in populations
    /\ snow = SnowBuilt
    /\ rateEntered = defaults.fireworkRate
    /\ obs = [tick |-> 0, hit |-> <<>>, draw |-> HighDraw,
              entered |-> "inside", belowRate |-> FALSE, lengthBefore |-> 0,
              created |-> 0, order |-> <<>>,
              colorWrites |-> 0, needsUpdateSet |-> FALSE, autoRotateWrites |-> 0,
              scenario |-> 0, burst |-> {}, removed |-> {}, updated |-> <<>>]

InitWith(colorings) == InitOf(colorings, {Populated})

Init == InitWith(Colorings)

\* Pointer anywhere, one kind of rocket.
Animate ==
    \E intersection \in Intersections, rnd \in Randoms(MainSpawnFrames, {800}, {24}, {29}, {VelocityUp}) :
        Frame(intersection, rnd)

ChangeFireworkRate == \E v \in FireworkRates : SetFireworkRate(v)

ChangeRotateSpeed == \E v \in RotateSpeeds : SetRotateSpeed(v)

Next == Animate \/ Reset \/ ChangeRotateSpeed

Spec == Init /\ [][Next]_vars

\* Pointer off the ornaments, rockets and explosions of several kinds.
InitFireworks == InitWith({[i \in Instances |-> colorPalette[(i % Len(colorPalette)) + 1]]})

AnimateFireworks ==
    \E rnd \in Randoms(SpawnFrames, {800}, {20, 24}, {20, 29}, {VelocityDown}) : Frame(<<>>, rnd)

NextFireworks == AnimateFireworks \/ ChangeFireworkRate

SpecFireworks == InitFireworks /\ [][NextFireworks]_vars

\* Pointer off the ornaments, a spawn window long enough to fill the pool.
AnimatePool ==
    \E rnd \in Randoms(PoolSpawnFrames, {800}, {24}, {29}, {VelocityUp}) : Frame(<<>>, rnd)

\* The slider is moved while draws can still fall below the rate.
ChangePoolRate == frames < PoolSpawnFrames /\ \E v \in PoolRates : SetFireworkRate(v)

NextPool == AnimatePool \/ ChangePoolRate

SpecPool == InitFireworks /\ [][NextPool]_vars

\* The pool filling and draining with frames that keep coming: animate()
\* re-arms itself with requestAnimationFrame (line 635) and a frame can always
\* run, so weak fairness of the frame action, WF_vars(AnimatePool), amounts to
\* infinitely many frame steps.
AnimateLive ==
    \E rnd \in Randoms(LiveSpawnFrames, {800}, {24}, {29}, {VelocityUp}) : Frame(<<>>, rnd)

SpecLive == InitFireworks /\ [][AnimateLive]_vars /\ []<><<IsFrame>>_vars

\* Any value entered on the fireworkRate slider, any frame drawing low, middle
\* or high during the spawn window.
EnteredRates == {-50, 0, 15, 100, 500}

AnimateRate ==
    \E rnd \in RandomsWith(IF frames < SpawnFrames THEN {ZeroDraw, LowDraw, MidDraw}
                                                    ELSE {MidDraw},
                            {800}, {24}, {29}, {VelocityUp}) :
        Frame(<<>>, rnd)

EnterFireworkRate == \E v \in EnteredRates : SetFireworkRate(v)

NextRate == AnimateRate \/ EnterFireworkRate

SpecRate == InitFireworks /\ [][NextRate]_vars

\* The population loops that build the tree, each observed from its start.
InitBuild ==
    InitOf({[i \in Instances |-> colorPalette[1]]},
           {LoopStart(kind) : kind \in {"foliage", "ornaments", "boxes"}})

NextBuild == PlaceFoliage \/ PlaceOrnament \/ PlaceBox

SpecBuild == InitBuild /\ [][NextBuild]_vars

\* Reset after any use of the sliders: each slider can be moved away from its
\* default, the snowflake count slider up to MaxRebuilds times.
BloomSliders == {<<"bloomStrength", 20>>, <<"bloomRadius", 8>>, <<"bloomThreshold", 5>>}

BokehSliders == {<<"focus", 40>>, <<"aperture", 5>>, <<"maxblur", 30>>}

ChangeBloom == \E c \in BloomSliders : SetBloom(c[1], c[2])

ChangeBokeh == \E c \in BokehSliders : SetBokeh(c[1], c[2])

ChangeLightSpeed == SetLightSpeed(30)

RaiseFireworkRate == SetFireworkRate(100)

RaiseRotateSpeed == SetRotateSpeed(50)

RaiseSnowflakeSize == SetSnowflakeSize(100)

RaiseSnowflakeCount == SetSnowflakeCount(3000)

NextReset ==
    \/ ChangeBloom \/ ChangeBokeh \/ ChangeLightSpeed \/ RaiseFireworkRate \/ RaiseRotateSpeed
    \/ RaiseSnowflakeSize \/ RaiseSnowflakeCount \/ Reset

SpecReset == InitFireworks /\ [][NextReset]_vars

\* The control panel alone: the snowflake sliders, the rotation slider, reset.
ChangeSnowflakeCount == \E v \in SnowflakeCounts : SetSnowflakeCount(v)

ChangeSnowflakeSize == \E v \in SnowflakeSizes : SetSnowflakeSize(v)

NextPanel == ChangeSnowflakeCount \/ ChangeSnowflakeSize \/ ChangeRotateSpeed \/ Reset

SpecPanel == InitFireworks /\ [][NextPanel]_vars

----------------------------------------------------------------------------
(* Claims about the firework pool *)

Rockets(pool) == {pool[i] : i \in {j \in DOMAIN pool : pool[j].type = "rocket"}}

Explosions(pool) == {pool[i] : i \in {j \in DOMAIN pool : pool[j].type = "explosion"}}

\* Number of entities of the pool that carry identity id
CountId(pool, id) == Cardinality({i \in DOMAIN pool : pool[i].id = id})

\* C1: after every frame the pool (rockets and explosions together) holds at
\* most 8 entities, whatever the rate; a frame that starts with 8 entities
\* creates no rocket; a frame creates at most one rocket, and only when the
\* draw of that same frame is below the rate (a suppressed spawn is not made
\* up later); the pool changes size only by the rocket created and the
\* explosions removed, so a rocket turning into an explosion leaves it alone.
C1_PoolCapacity ==
    /\ Len(fireworks) <= maxFireworks
    /\ obs.lengthBefore = maxFireworks => obs.created = 0
    /\ obs.created \in {0, 1}
    /\ obs.created = 1 => obs.belowRate
    /\ Len(fireworks) = obs.lengthBefore + obs.created - Cardinality(obs.removed)

\* A frame that started with a full pool, drew below the rate and spawned
\* nothing.
C1_Witness ==
    /\ obs.lengthBefore = maxFireworks
    /\ obs.belowRate
    /\ obs.created = 0
    /\ Len(fireworks) = maxFireworks

\* C2: at the end of every frame no rocket of the pool has y >= targetY; no
\* identity is in the pool twice (a rocket and the explosion made from it are
\* never both there); and every rocket that reached its target in the frame
\* is gone and has exactly one explosion, fresh (life 1.0), in the pool.
C2_Transition ==
    /\ \A r \in Rockets(fireworks) : r.y < r.targetY
    /\ \A i \in DOMAIN fireworks : CountId(fireworks, fireworks[i].id) = 1
    /\ \A id \in obs.burst :
          /\ CountId(fireworks, id) = 1
          /\ \E e \in Explosions(fireworks) : e.id = id /\ e.life = LifeOne

\* A rocket reached its target in the latest frame, ahead of an older rocket
\* that is still climbing.
C2_Witness ==
    /\ obs.burst # {}
    /\ \E id \in obs.burst : \E r \in Rockets(fireworks) : r.id < id

\* C3: every explosion in the pool after a step has life in (0, 1]; one that
\* was not there before starts at 1.0; one that was there before a frame has
\* a strictly smaller life after it; and an explosion leaves the pool only in
\* a frame in which its life, decreased by its decay, is <= 0.
C3_LifeDecay ==
    [][ /\ \A e \in Explosions(fireworks') :
              /\ 0 < e.life /\ e.life <= LifeOne
              /\ (\A d \in Explosions(fireworks) : d.id # e.id) => e.life = LifeOne
              /\ \A d \in Explosions(fireworks) :
                    (d.id = e.id /\ IsFrame) => e.life < d.life
        /\ \A d \in Explosions(fireworks) :
              (\A e \in Explosions(fireworks') : e.id # d.id) => d.life - d.decay <= 0
      ]_vars

\* An explosion was removed with its life exactly 0 in the latest frame, while
\* another one, part-way through its life, stays in the pool.
C3_Witness ==
    /\ obs.removed # {}
    /\ \E e \in Explosions(fireworks) : e.life < LifeOne /\ e.life = e.decay

----------------------------------------------------------------------------
(* Claims about the assembly animation *)

\* C4: from one step to the next the progress never decreases, it never
\* exceeds 1.0, and once it is 1.0 it stays 1.0.
C4_ProgressMonotone ==
    [][ /\ uProgress' >= uProgress
        /\ uProgress' <= ProgressOne
        /\ uProgress = ProgressOne => uProgress' = ProgressOne
      ]_vars

\* Settled, and frames have run since the one that completed the assembly.
C4_Witness == uProgress = ProgressOne /\ frames > 87

\* C5: the progress starts at 0, is below 1.0 after each of the first 85
\* frames and is exactly 1.0 after the 86th and after every later one.
C5_ReachesOne ==
    /\ frames = 0 => uProgress = 0
    /\ frames <= 85 => uProgress < ProgressOne
    /\ frames >= 86 => uProgress = ProgressOne

\* The 86th frame has just completed the assembly.
C5_Witness == frames = 86 /\ uProgress = ProgressOne /\ explosionSpeed = 90

\* C9: controls.autoRotate is false while progress < 1 and true once progress
\* is 1, it is assigned by animate() exactly once in the session, and no step
\* (a reset included) makes it false again.
C9_AutoRotate ==
    [][ /\ uProgress' < ProgressOne => (~autoRotate' /\ obs'.autoRotateWrites = 0)
        /\ uProgress' = ProgressOne => (autoRotate' /\ obs'.autoRotateWrites = 1)
        /\ autoRotate => autoRotate'
      ]_vars

\* Auto-rotation is on, frames have run since it was switched on, and the
\* rotate-speed slider stands away from its default.
C9_Witness ==
    /\ autoRotate
    /\ obs.autoRotateWrites = 1
    /\ frames > 87
    /\ autoRotateSpeed # defaults.rotateSpeed

\* C17: at the end of every frame the star stands at the interpolation from
\* finalPosition + randomOrigin to finalPosition at easeOut = 1 - (1 - p)^2 of
\* the frame's clamped progress p, that is, its remaining offset is (1 - p)^2
\* of randomOrigin; from the frame in which the progress reaches 1 on it is
\* at finalPosition exactly.
C17_StarPosition ==
    /\ star = (ProgressOne - uProgress) * (ProgressOne - uProgress)
    /\ uProgress = ProgressOne => star = 0
    /\ frames >= 86 => star = 0

\* The frame in which the progress passed 1.0: the interpolation at the
\* unclamped progress left an offset (the light still shows it), the star
\* itself stands at its final position.
C17_Witness ==
    /\ frames = 86
    /\ uProgress = ProgressOne
    /\ star = 0
    /\ starLight > 0

\* C18: a frame that starts with progress < 1 raises explosionSpeed by exactly
\* explosionAcceleration, and no step lowers it; from a state with progress 1
\* every step leaves progress, explosionSpeed, the star's position and the
\* auto-rotate flag unchanged.
C18_Acceleration ==
    [][ /\ (IsFrame /\ uProgress < ProgressOne) =>
              explosionSpeed' = explosionSpeed + explosionAcceleration
        /\ explosionSpeed' >= explosionSpeed
        /\ uProgress = ProgressOne =>
              /\ uProgress' = uProgress
              /\ explosionSpeed' = explosionSpeed
              /\ star' = star
              /\ autoRotate' = autoRotate
      ]_vars

\* Frames have run on the settled tree and the speed is still the one of the
\* frame that completed the assembly.
C18_Witness ==
    /\ frames = 89
    /\ explosionSpeed = InitialExplosionSpeed + 86 * explosionAcceleration
    /\ autoRotate
    /\ star = 0

\* C21: at the end of every frame the star's point light is where the star
\* is, the frame that completes the assembly and every settled frame
\* included, where both are exactly at the star's final position.
C21_LightFollowsStar ==
    /\ starLight = star
    /\ uProgress = ProgressOne => (star = 0 /\ starLight = 0)

----------------------------------------------------------------------------
(* Claims about the ornament highlight *)

\* Every ornament but the hovered one has its original colour, the hovered one is white.
HighlightShown ==
    \A i \in Instances :
        instanceColor[i] = IF i = hoveredInstanceId THEN whiteColor ELSE originalColors[i]

\* C6: after any sequence of hit-test results every ornament other than the
\* highlighted one has its originally assigned colour and the highlighted one,
\* if any, is white; the originalColors table is never written.
C6_HighlightRestore ==
    [][originalColors' = originalColors /\ HighlightShown']_vars

\* The highlight moved from one ornament to another in the latest frame
\* (one restore and one highlight written).
C6_Witness ==
    /\ hoveredInstanceId # -1
    /\ obs.colorWrites = 2
    /\ obs.needsUpdateSet

ExampleColors ==
    /\ originalColors[0] = "red"
    /\ originalColors[1] = "gold"
    /\ originalColors[2] = "blue"

\* C7 as stated: original colours [red, gold, blue], hits 0, 0, 1, none:
\* index 0 is white after frames 1 and 2 and red after frame 3; index 1 is
\* white after frame 3 and blue after frame 4.
C7_AsStated ==
    ExampleColors =>
        /\ obs.scenario \in {1, 2} => instanceColor[0] = whiteColor
        /\ obs.scenario = 3 => (instanceColor[0] = "red" /\ instanceColor[1] = whiteColor)
        /\ obs.scenario = 4 => instanceColor[1] = "blue"

\* C7 (amended): the same scenario; index 1 is restored after frame 4 to its
\* own original colour, gold (blue is the colour of index 2, which the
\* scenario never touches).
C7_Scenario ==
    ExampleColors =>
        /\ obs.scenario \in {1, 2} => instanceColor[0] = whiteColor
        /\ obs.scenario = 3 => (instanceColor[0] = "red" /\ instanceColor[1] = whiteColor)
        /\ obs.scenario = 4 =>
              /\ instanceColor[0] = "red"
              /\ instanceColor[1] = "gold"
              /\ instanceColor[2] = "blue"

\* The four frames of the scenario have run on the example colours.
C7_Witness == ExampleColors /\ obs.scenario = 4 /\ frames = 4

\* C10: a frame whose hit is the index already highlighted, or that hits
\* nothing while nothing is highlighted, writes nothing: colour buffer and
\* hoveredInstanceId are as before, no setColorAt ran and needsUpdate was not set.
C10_NoRedundantWrites ==
    [][ (/\ IsFrame
         /\ \/ obs'.hit = <<hoveredInstanceId>>
            \/ (obs'.hit = <<>> /\ hoveredInstanceId = -1))
        => /\ instanceColor' = instanceColor
           /\ hoveredInstanceId' = hoveredInstanceId
           /\ obs'.colorWrites = 0
           /\ ~obs'.needsUpdateSet
      ]_vars

\* The latest frame hit the ornament that was highlighted already.
C10_Witness ==
    /\ hoveredInstanceId # -1
    /\ obs.hit = <<hoveredInstanceId>>
    /\ obs.colorWrites = 0
    /\ frames >= 2

----------------------------------------------------------------------------
(* Claims about the frame as a whole *)

\* C8 as stated: in every frame the firework update runs before the highlight
\* update: assembly, fireworks, highlight, render.
C8_AsStated ==
    frames > 0 => obs.order = <<"assembly", "fireworks", "highlight", "render">>

\* C8 (amended): in every frame the parts run in the order assembly, highlight
\* (hit test and colour restore/highlight), fireworks (updateFireworks),
\* render: the highlight update of a frame happens before its pool update.
C8_FrameOrder ==
    frames > 0 => obs.order = <<"assembly", "highlight", "fireworks", "render">>

\* A frame in which the highlight wrote colours and the pool update created a rocket.
C8_Witness ==
    /\ obs.order = <<"assembly", "highlight", "fireworks", "render">>
    /\ obs.colorWrites > 0
    /\ obs.created = 1

----------------------------------------------------------------------------
(* Claims about the vertex displacement *)

\* C11: explodeFactor = 1 - smoothstep(0, 1, progress)^0.5 is exactly 1 in the
\* initial state (progress 0) and exactly 0 in every settled state (progress
\* 1), where every vertex is displaced by exactly zero.
C11_ExplodeFactor ==
    /\ frames = 0 => (uProgress = 0 /\ ExplodeFactor(uProgress) = ProgressOne)
    /\ frames >= 86 =>
          /\ ExplodeFactor(uProgress) = 0
          /\ \A o \in OffsetSamples : Displacement(o, uProgress) = 0

\* Settled, some frames after the one that completed the assembly, with a
\* zero factor; the frame before completion still had a positive one.
C11_Witness ==
    /\ frames > 87
    /\ ExplodeFactor(uProgress) = 0
    /\ ExplodeFactor(3995) > 0

C14_SnowInvariant ==
    /\ snow.scene = {snow.particlesMesh}
    /\ Cardinality(snow.scene) = 1
    /\ snow.points[snow.particlesMesh] = snow.lastCount
    /\ snow.particlesGeometry \notin snow.disposed
    /\ \A g \in DOMAIN snow.points \ {snow.particlesMesh} :
          g \notin snow.scene /\ g \in snow.disposed

C14_Rebuild ==
    /\ []C14_SnowInvariant
    /\ [][(snow'.nextId # snow.nextId /\ snow'.lastCount = snow.lastCount) =>
            /\ Cardinality(snow'.scene) = Cardinality(snow.scene)
            /\ snow'.points[snow'.particlesMesh] = snow.points[snow.particlesMesh]
            /\ snow'.particlesMesh # snow.particlesMesh
         ]_vars

C14_Witness ==
    /\ snow.repeated
    /\ snow.nextId = 4
    /\ snow.lastCount = 3000
    /\ snow.disposed = {1, 2}

\* the instances written so far
Written == {population.matrix[j] : j \in {k \in DOMAIN population.matrix :
                                              population.matrix[k].written}}

\* r = (1 - ratio) * R at the height of p, in p's units
RadiusAt(p) == ((treeHeight * p.unit - p.y) * treeRadius) \div treeHeight

\* the square of p's distance from the tree axis, in p's units
DistSq(p) == p.x * p.x + p.z * p.z

\* a loop has written one transform per iteration, and all N once it is done
ExactlyN ==
    /\ population.writes = population.i
    /\ population.i <= Capacity(population.kind)
    /\ Cardinality({k \in DOMAIN population.matrix : population.matrix[k].written})
          = population.writes
    /\ Len(population.matrix) = Capacity(population.kind)

HeightInRange == \A p \in Written : 0 <= p.y /\ p.y < treeHeight * p.unit

FoliageInShell ==
    population.kind = "foliage" =>
        \A p \in Written : LET r == RadiusAt(p)
                            IN  r * r <= 4 * DistSq(p) /\ DistSq(p) <= r * r

OnCone(p) == LET r == RadiusAt(p)
             IN  DistSq(p) = r * r /\ DistSq(p) <= (treeRadius * p.unit) * (treeRadius * p.unit)

\* C12 as stated: ornaments and gift boxes both lie on the cone surface, at
\* distance exactly r from the axis and never more than R.
C12_AsStated ==
    /\ ExactlyN
    /\ HeightInRange
    /\ FoliageInShell
    /\ population.kind \in {"ornaments", "boxes"} => \A p \in Written : OnCone(p)

\* C12: populating a group of capacity N writes exactly N instance transforms;
\* every instance has height in [0, H); foliage lies at distance within
\* [0.5r, r] of the axis, ornaments at exactly r (never more than R), and gift
\* boxes at exactly r + 0.2 (never more than R + 0.2), r = (1 - ratio) * R.
C12_Population ==
    /\ ExactlyN
    /\ HeightInRange
    /\ FoliageInShell
    /\ population.kind = "ornaments" => \A p \in Written : OnCone(p)
    /\ population.kind = "boxes" =>
          \A p \in Written :
              LET r == RadiusAt(p) + p.unit \div 5
                  max == treeRadius * p.unit + p.unit \div 5
              IN  DistSq(p) = r * r /\ DistSq(p) <= max * max

C12_Witness ==
    /\ population.kind = "boxes"
    /\ population.writes = BoxCount
    /\ \E p \in Written : p.y = 0 /\ DistSq(p) > (treeRadius * p.unit) * (treeRadius * p.unit)

----------------------------------------------------------------------------
(* Claims about the burst and the particles *)

\* the entity of the pool that carries identity id
Entity(pool, id) == pool[CHOOSE i \in DOMAIN pool : pool[i].id = id]

\* C15: when a rocket transitions, every particle of its explosion starts at
\* the rocket's x and z and at altitude exactly targetY, however far the last
\* ascent step carried y past targetY.
C15_BurstAtTarget ==
    [][IsFrame =>
         \A r \in Rockets(fireworks) :
             r.id \in obs'.burst =>
                 \A j \in 1..NumParticles :
                     Entity(fireworks', r.id).positions[j] =
                         [x |-> r.x * PositionScale, y |-> r.targetY * PositionScale,
                          z |-> r.z * PositionScale]
       ]_vars

\* C16: in every tick of an explosion the stored vertical velocity of each
\* particle is decremented by the gravity constant besides being multiplied
\* by the drag (either order), so that gravity accumulates in the velocity.
C16_GravityOnVelocity ==
    [][IsFrame =>
         \A e \in Explosions(fireworks) :
             (\E i \in DOMAIN fireworks' : fireworks'[i].id = e.id) =>
                 \A j \in 1..NumParticles :
                     Entity(fireworks', e.id).velocities[j].y
                         \in {Drag(e.velocities[j].y) - Gravity, Drag(e.velocities[j].y - Gravity)}
       ]_vars

\* how many of the visits of an update loop were to identity id
Visits(updated, id) == Cardinality({k \in DOMAIN updated : updated[k].id = id})

\* C19: in one updateFireworks tick every entity in the pool when the update
\* loop starts (the rocket just spawned included) is updated exactly once, as
\* what it was at that moment; an explosion created by a transition in the
\* tick is not updated in it: its life is 1.0 and its particles are at the
\* point where the rocket burst.
C19_UpdatedOnce ==
    [][IsFrame =>
         /\ Len(obs'.updated) = Len(fireworks) + obs'.created
         /\ \A i \in DOMAIN fireworks :
               /\ Visits(obs'.updated, fireworks[i].id) = 1
               /\ [id |-> fireworks[i].id, type |-> fireworks[i].type] \in
                     {obs'.updated[k] : k \in DOMAIN obs'.updated}
         /\ obs'.created = 1 =>
               [id |-> nextId, type |-> "rocket"] \in {obs'.updated[k] : k \in DOMAIN obs'.updated}
         /\ \A r \in Rockets(fireworks) :
               r.id \in obs'.burst =>
                   LET e == Entity(fireworks', r.id)
                   IN  /\ e.type = "explosion"
                       /\ e.life = LifeOne
                       /\ \A j \in 1..NumParticles :
                             e.positions[j] = [x |-> r.x * PositionScale,
                                               y |-> (r.y + r.speed) * PositionScale,
                                               z |-> r.z * PositionScale]
       ]_vars

\* Two rockets were in the pool and the one at the end of the array burst: it
\* was visited first, its explosion took the place just visited, and the
\* loop went on to the other rocket.
C19_Witness ==
    /\ Len(obs.updated) = 2
    /\ obs.updated[1].id \in obs.burst
    /\ obs.updated[2].type = "rocket"
    /\ Len(fireworks) = 2
    /\ fireworks[2].type = "explosion" /\ fireworks[2].life = LifeOne

----------------------------------------------------------------------------
(* Claims about progress of the firework pool *)

\* identities a session of SpecLive can give to rockets
PoolIds == 1..LiveSpawnFrames

IsRocket(id) == \E i \in DOMAIN fireworks : fireworks[i].id = id /\ fireworks[i].type = "rocket"

IsExplosion(id) == \E i \in DOMAIN fireworks : fireworks[i].id = id /\ fireworks[i].type = "explosion"

InPool(id) == \E i \in DOMAIN fireworks : fireworks[i].id = id

\* C20: while frames keep coming, every rocket in the pool eventually becomes
\* an explosion and every explosion is eventually removed, so that no entity
\* stays in the pool forever, and a full pool eventually has room for a new
\* rocket again.
C20_EventuallyRemoved ==
    /\ \A id \in PoolIds : IsRocket(id) ~> IsExplosion(id)
    /\ \A id \in PoolIds : IsExplosion(id) ~> ~InPool(id)
    /\ (Len(fireworks) = maxFireworks) ~> (Len(fireworks) < maxFireworks)

\* The pool was full (eight rockets were created in the first frames) and the
\* latest frame removed the first explosion, leaving room for a spawn.
C20_Witness ==
    /\ nextId = maxFireworks + 1
    /\ obs.removed # {}
    /\ Len(fireworks) = maxFireworks - 1

----------------------------------------------------------------------------
(* Claims about the firework visuals *)

\* C22: at the end of every frame the firework visuals in the scene are
\* exactly the Points objects of the entities of the pool, one per entity;
\* the visual of every rocket that has transitioned and of every explosion
\* that has been removed is out of the scene with its geometry and its
\* material disposed, and nothing in the scene has been disposed.
C22_SceneMatchesPool ==
    /\ visuals.scene = {Points(fireworks[i]) : i \in DOMAIN fireworks}
    /\ Cardinality(visuals.scene) = Len(fireworks)
    /\ visuals.scene \cap (visuals.geometryDisposed \cup visuals.materialDisposed) = {}
    /\ \A id \in 1..(nextId - 1) :
          /\ ~IsRocket(id) =>
                /\ <<"rocket", id>> \notin visuals.scene
                /\ <<"rocket", id>> \in visuals.geometryDisposed
                /\ <<"rocket", id>> \in visuals.materialDisposed
          /\ ~InPool(id) =>
                /\ <<"explosion", id>> \notin visuals.scene
                /\ <<"explosion", id>> \in visuals.geometryDisposed
                /\ <<"explosion", id>> \in visuals.materialDisposed

\* The first firework has gone through its whole life and the second one is
\* an explosion: three visuals are disposed, one is in the scene.
C22_Witness ==
    /\ Len(fireworks) = 1
    /\ fireworks[1].type = "explosion"
    /\ Cardinality(visuals.geometryDisposed) = 3
    /\ visuals.scene = {<<"explosion", 2>>}

----------------------------------------------------------------------------
(* Claims about the reset *)

\* every value in effect is the one params holds
AppliedMatchesParams ==
    /\ bloomPass = [strength |-> params.bloomStrength, radius |-> params.bloomRadius,
                    threshold |-> params.bloomThreshold]
    /\ bokehPass = [focus |-> params.focus, aperture |-> params.aperture,
                    maxblur |-> params.maxblur]
    /\ autoRotateSpeed = params.rotateSpeed
    /\ snow.size = params.snowflakeSize
    /\ snow.points[snow.particlesMesh] = params.snowflakeCount

\* C23: after params.reset(), whatever the sliders did before, params holds
\* the defaults and every value in effect matches it: bloom strength, radius
\* and threshold, bokeh focus, aperture and maxblur, rotate speed, light
\* speed, firework rate, the snowflake material size (0.25) and the number of
\* snowflake points in the scene (1400).
C23_ResetAppliesDefaults ==
    [][Reset => (params' = defaults /\ AppliedMatchesParams')]_vars

====
